---- MODULE Spec2Model ----
(***************************************************************************)
(* The gateway of the AI development platform: the Express routes and the  *)
(* WebSocket handler of the full server (src/unnamed/part_007), of the     *)
(* local server without GitHub (src/backend/server-simple.js) and of the   *)
(* Railway demo server (src/unnamed/part_009), together with the external  *)
(* collaborators they call: the GitHub client, the devpod CLI and the      *)
(* shell.  Every await of a handler is a point where another request may   *)
(* run, so each handler is one action per stretch between two awaits.      *)
(***************************************************************************)
EXTENDS Integers, Sequences, FiniteSets, TLC

VARIABLES
    variant,      \* which server file is running: "full", "simple" or "railway"
    serverUp,     \* FALSE once an exception has escaped every handler
    now,          \* the last value Date.now() returned, in milliseconds
    creates,      \* POST /api/workspaces/create requests, in arrival order
    chats,        \* POST /api/workspaces/:workspaceId/chat requests
    frames,       \* inbound frames of the WebSocket connection
    pushed,       \* what ws.send has put on the connection, in order
    wsOpen,       \* the WebSocket connection is open
    repos,        \* repositories that exist (GitHub names, or local git dirs)
    containers,   \* workspace ids devpod has a workspace for
    stopped,      \* the workspaces among them that devpod has stopped
    ops,          \* status, stop and delete requests, in arrival order
    limiter,      \* createLimiter's store for one client IP, and what it let through
    ui            \* the state of the chat page (App.tsx) and its connection

vars == <<variant, serverUp, now, creates, chats, frames, pushed, wsOpen,
          repos, containers, stopped, ops, limiter, ui>>

(***************************************************************************)
(* Bounds of the model.                                                    *)
(***************************************************************************)
MaxRequests == 2     \* requests and frames the model lets arrive, in total
MaxClock == 1        \* the clock runs from 0 to MaxClock
MaxTicks == 4        \* how often time passes between rate-limited requests
MaxLimited == 7      \* creation requests one client sends to the rate limiter
MaxSends == 3        \* calls of sendMessage that pass its guard

(***************************************************************************)
(* JavaScript values.  An object is a function from its own enumerable     *)
(* keys to values; booleans are spelled as their JSON literals.            *)
(***************************************************************************)
Missing == "undefined"            \* a field the request body does not have
NotAString == "number:5"          \* a truthy value without a replace method
JsTrue == "true"
JsFalse == "false"
NoFields == [k \in {} |-> ""]
Obj(f) == [kind |-> "object", fields |-> f]
JsNull == [kind |-> "null", fields |-> NoFields]
JsUndefined == [kind |-> "undefined", fields |-> NoFields]

Has(v, k) == v.kind = "object" /\ k \in DOMAIN v.fields
Get(v, k) == IF Has(v, k) THEN v.fields[k] ELSE Missing

\* {...a, ...b}: the own enumerable keys of b override those of a; null,
\* undefined and numbers spread to nothing.
Spread(a, b) ==
    [k \in DOMAIN a \cup DOMAIN b |-> IF k \in DOMAIN b THEN b[k] ELSE a[k]]

\* new Date().toISOString()
ToISOString(t) == "T" \o ToString(t)

(***************************************************************************)
(* The inputs.                                                             *)
(***************************************************************************)
\* the bodies of creation requests: <<userId, projectName>>
CreateBodies == {<<"u1", "app">>, <<"u2", "app">>, <<Missing, "app">>, <<"u1", Missing>>}
Variants == {"full", "simple", "railway"}

\* the message of the Error an external call rejects with: first line of
\* "Command failed: ..." plus the process's stderr
ErrorTexts == {"Command failed: exit 1 /home/devpod/.ssh/key", "Command failed: ETIMEDOUT"}

\* what the chat collaborator can write to stdout when it exits 0
Stdouts == {
    "{\"success\":true,\"response\":\"done\"}",
    "{\"type\":\"typing\",\"timestamp\":\"1970\",\"success\":true,\"response\":\"done\"}",
    "{\"response\":\"done\"}",
    "null",
    "Usage: python claude-handler.py" }

\* the outcome of one external call
Rejected(e) == [kind |-> "reject", text |-> e]
Exited0(s) == [kind |-> "stdout", text |-> s]
ExecOutcomes == {Rejected(e) : e \in ErrorTexts} \cup {Exited0(s) : s \in Stdouts}
\* the outcome of a provisioning call: it fails, or succeeds
CallOutcomes == {Rejected("Command failed: exit 1"), Exited0("")}

\* JSON.parse of a collaborator's stdout: [threw, value]
JsonParse(s) ==
    CASE s = "{\"success\":true,\"response\":\"done\"}" ->
            [threw |-> FALSE,
             value |-> Obj([success |-> JsTrue, response |-> "done"])]
      [] s = "{\"type\":\"typing\",\"timestamp\":\"1970\",\"success\":true,\"response\":\"done\"}" ->
            [threw |-> FALSE,
             value |-> Obj([type |-> "typing", timestamp |-> "1970",
                            success |-> JsTrue, response |-> "done"])]
      [] s = "{\"response\":\"done\"}" ->
            [threw |-> FALSE, value |-> Obj([response |-> "done"])]
      [] s = "null" -> [threw |-> FALSE, value |-> JsNull]
      [] OTHER -> [threw |-> TRUE, value |-> JsUndefined]

(***************************************************************************)
(* Workspace ids.                                                          *)
(***************************************************************************)
\* `workspace-${userId}-${Date.now()}`
WorkspaceIdOf(userId, t) == <<"workspace", userId, t>>
\* `demo-${Date.now()}`
DemoIdOf(t) == <<"demo", t>>
\* an id no creation request was ever answered with
UnknownId == <<"workspace", "nobody", 0>>
\* the id of a workspace an earlier run of the server created: the server
\* keeps no record of its own, devpod and GitHub keep theirs
PriorId == <<"workspace", "u0", 0>>

(***************************************************************************)
(* DevPodManager.executeInWorkspace                                        *)
(***************************************************************************)
CannedResponse == "I encountered an error processing your request."
TypeErrorText == "message.replace is not a function"

\* message.replace(...) throws a TypeError inside the try when message is
\* undefined or has no replace method: execAsync is then never called.
ExecuteCallsExec(message) == message \notin {Missing, NotAString}

\* the catch block: the error is logged and turned into a result
ExecuteCatch(errorMessage) ==
    Obj([success |-> JsFalse, error |-> errorMessage, response |-> CannedResponse])

\* a faulty executeInWorkspace, without its catch: C2 must tell it apart
ExecuteResultNoCatch(outcome) ==
    IF outcome.kind = "reject" \/ JsonParse(outcome.text).threw
    THEN [threw |-> TRUE, value |-> JsUndefined]
    ELSE [threw |-> FALSE, value |-> JsonParse(outcome.text).value]

\* what executeInWorkspace resolves with once execAsync has settled
ExecuteResult(outcome) ==
    IF outcome.kind = "reject"
    THEN [threw |-> FALSE, value |-> ExecuteCatch(outcome.text)]
    ELSE IF JsonParse(outcome.text).threw
         THEN [threw |-> FALSE, value |-> ExecuteCatch("Unexpected token in JSON")]
         ELSE [threw |-> FALSE, value |-> JsonParse(outcome.text).value]

\* what executeInWorkspace resolves with when message.replace threw
ExecuteTypeError == [threw |-> FALSE, value |-> ExecuteCatch(TypeErrorText)]

\* devpod ssh <id> fails when devpod has no workspace of that id
SshOutcomes(workspaceId) ==
    IF workspaceId \in containers THEN ExecOutcomes
    ELSE {Rejected(e) : e \in ErrorTexts}

(***************************************************************************)
(* HTTP replies and request records.                                       *)
(***************************************************************************)
NoReply == [status |-> 0, body |-> JsUndefined]
NoOutcome == [kind |-> "none", text |-> ""]
Json(status, fields) == [status |-> status, body |-> Obj(fields)]

\* Date.now(): the clock never runs backwards, and any amount of time may
\* have passed since it was last read.  Time passes where an id is made
\* of it; the timestamp of a pushed message is the time as it stands.
ClockReads(reads) == IF reads THEN now..MaxClock ELSE {now}

Arrived == Len(creates) + Len(chats) + Len(frames) + Len(ops)

\* the ids creation requests have generated so far
GeneratedIds == {creates[i].id : i \in 1..Len(creates)} \ {UnknownId}
ChatTargets == GeneratedIds \cup containers \cup {UnknownId}
\* the chat requests a client can make: <<workspaceId, message>>; the
\* messages that are empty, absent or not a string are sent for one id only
ChatBodies ==
    {<<w, "hi">> : w \in ChatTargets}
    \cup {<<UnknownId, m>> : m \in {"", Missing, NotAString}}

(***************************************************************************)
(* POST /api/workspaces/:workspaceId/chat                                  *)
(***************************************************************************)
\* if (!message) return res.status(400)...
ChatRejects(message) == message \in {Missing, ""}

ChatBadRequest == Json(400, [success |-> JsFalse, error |-> "Missing required field: message"])

\* a faulty manager that keeps the result of a dispatch in a field of its
\* own, shared by the calls in flight: the route answers with the first
\* result stored there.  C16 must tell it apart.
ChatReplySharedResult(result) ==
    LET answered == {k \in 1..Len(chats) : chats[k].pc = "done" /\ chats[k].execCalls = 1}
    IN  IF answered # {}
        THEN chats[CHOOSE k \in answered : \A m \in answered : k <= m].reply
        ELSE [status |-> 200, body |-> result.value]

\* res.json(result), or the route's own catch when the dispatch threw
ChatReply(result) ==
    IF result.threw
    THEN Json(500, [success |-> JsFalse, error |-> "thrown",
                    response |-> "I encountered an error. Please try again."])
    ELSE [status |-> 200, body |-> result.value]

\* the Railway demo route answers every request the same way
DemoChatReply(message) ==
    Json(200, [success |-> JsTrue, response |-> "I received your message: " \o message,
               context_used |-> JsFalse, workspace_updated |-> JsFalse])

\* among reqs, a dispatch for this id with this message has failed already
FailedBefore(reqs, workspaceId, message) ==
    \E k \in 1..Len(reqs) :
        /\ reqs[k].workspaceId = workspaceId /\ reqs[k].message = message
        /\ reqs[k].pc = "done"
        /\ \/ reqs[k].outcome.kind = "reject"
           \/ reqs[k].outcome.kind = "stdout" /\ JsonParse(reqs[k].outcome.text).threw

\* ready: devpod had a workspace of that id when the request arrived;
\* resend: a dispatch of the same message for the same id had failed by then
NewChat(workspaceId, message) ==
    [workspaceId |-> workspaceId, message |-> message, pc |-> "start",
     ready |-> workspaceId \in containers,
     resend |-> FailedBefore(chats, workspaceId, message),
     execCalls |-> 0, outcome |-> NoOutcome, reply |-> NoReply]

\* a faulty route that gives up on a workspace once a dispatch for it has
\* failed: C14 must tell it apart
StartChatFailingWorkspace(v, c) ==
    IF v = "railway" THEN [c EXCEPT !.pc = "done", !.reply = DemoChatReply(c.message)]
    ELSE IF ChatRejects(c.message) THEN [c EXCEPT !.pc = "done", !.reply = ChatBadRequest]
    ELSE IF c.resend
    THEN [c EXCEPT !.pc = "done",
                   !.reply = Json(409, [success |-> JsFalse, error |-> "workspace failed"])]
    ELSE IF ~ExecuteCallsExec(c.message)
    THEN [c EXCEPT !.pc = "done", !.reply = ChatReply(ExecuteTypeError)]
    ELSE [c EXCEPT !.pc = "exec", !.execCalls = @ + 1]

\* the route up to the await of execAsync
StartChat(v, c) ==
    IF v = "railway" THEN [c EXCEPT !.pc = "done", !.reply = DemoChatReply(c.message)]
    ELSE IF ChatRejects(c.message) THEN [c EXCEPT !.pc = "done", !.reply = ChatBadRequest]
    ELSE IF ~ExecuteCallsExec(c.message)
    THEN [c EXCEPT !.pc = "done", !.reply = ChatReply(ExecuteTypeError)]
    ELSE [c EXCEPT !.pc = "exec", !.execCalls = @ + 1]

PostChat ==
    /\ serverUp /\ Arrived < MaxRequests
    /\ \E b \in ChatBodies :
          chats' = Append(chats, StartChat(variant, NewChat(b[1], b[2])))
    /\ UNCHANGED <<limiter, ui, variant, ops, stopped, serverUp, now, creates,
                   frames, pushed, wsOpen, repos, containers>>

\* a faulty server that runs its commands with execSync: while one has not
\* returned the event loop runs nothing else.  C15 must tell it apart.
PostChatExecReturnsBlocked ==
    /\ serverUp
    /\ \A k \in 1..Len(chats) : chats[k].pc # "hung"
    /\ \A k \in 1..Len(frames) : frames[k].pc # "hung"
    /\ \A k \in 1..Len(creates) : creates[k].pc # "hung"
    /\ \E i \in 1..Len(chats) :
          /\ chats[i].pc = "exec"
          /\ \E outcome \in SshOutcomes(chats[i].workspaceId) :
                chats' = [chats EXCEPT ![i].pc = "done", ![i].outcome = outcome,
                                       ![i].reply = ChatReply(ExecuteResult(outcome))]
    /\ UNCHANGED <<limiter, ui, variant, ops, stopped, serverUp, now, creates,
                   frames, pushed, wsOpen, repos, containers>>

\* execAsync settles: executeInWorkspace resolves and the route replies
PostChatExecReturns ==
    /\ serverUp
    /\ \E i \in 1..Len(chats) :
          /\ chats[i].pc = "exec"
          /\ \E outcome \in SshOutcomes(chats[i].workspaceId) :
                chats' = [chats EXCEPT ![i].pc = "done", ![i].outcome = outcome,
                                       ![i].reply = ChatReply(ExecuteResult(outcome))]
    /\ UNCHANGED <<limiter, ui, variant, ops, stopped, serverUp, now, creates,
                   frames, pushed, wsOpen, repos, containers>>

(***************************************************************************)
(* The WebSocket connection: wss.on('connection'), ws.on('message')        *)
(***************************************************************************)
\* the frames a client can send, before the server has parsed them
ControlFrames ==
    {[syntax |-> x, type |-> Missing, workspaceId |-> UnknownId, message |-> Missing]
        : x \in {"garbage", "null", "number"}}
    \cup {[syntax |-> "object", type |-> "ping", workspaceId |-> UnknownId,
           message |-> Missing]}
ChatFrames ==
    {[syntax |-> "object", type |-> "chat", workspaceId |-> b[1], message |-> b[2]]
        : b \in ChatBodies}

\* const { type, workspaceId, message } = JSON.parse(data): JSON.parse throws
\* on text that is not JSON, and destructuring throws on null.
FrameThrows(f) == f.syntax \in {"garbage", "null"}
FrameErrorText(f) ==
    IF f.syntax = "garbage" THEN "Unexpected token in JSON"
    ELSE "Cannot destructure property 'type' of null"
\* a number has no own properties: every destructured name is undefined
FrameType(f) == IF f.syntax = "object" THEN f.type ELSE Missing
FrameMessage(f) == IF f.syntax = "object" THEN f.message ELSE Missing

Typing(status) == [type |-> "typing", status |-> status]
ErrorFrame(text) == [type |-> "error", error |-> text]
\* { type: 'response', ...result, timestamp: new Date().toISOString() }
ResponseFrame(result, t) ==
    Spread(Spread([type |-> "response"], result.fields),
           [timestamp |-> ToISOString(t)])
\* the Railway demo server's echo
DemoFrame(message, t) ==
    [type |-> "response", success |-> JsTrue,
     response |-> "Demo mode: " \o message, timestamp |-> ToISOString(t)]

\* ws.send(JSON.stringify(m)) for each m of ms, on behalf of frame i; a
\* connection that has closed delivers nothing
Send(i, ms) ==
    IF wsOpen THEN pushed \o [k \in 1..Len(ms) |-> [req |-> i, msg |-> ms[k]]]
    ELSE pushed

\* what the handler sends once the dispatch has settled (its own catch
\* runs when the dispatch threw)
AfterDispatch(result, t) ==
    IF result.threw THEN <<ErrorFrame("thrown")>>
    ELSE <<ResponseFrame(result.value, t), Typing(JsFalse)>>

\* openAtEnd: the connection was open when the handler sent its last message;
\* escaped: an exception of ws.send has left the handler
NewFrame(f) ==
    [syntax |-> f.syntax, type |-> f.type, workspaceId |-> f.workspaceId,
     message |-> f.message, pc |-> "start",
     ready |-> f.workspaceId \in containers,
     resend |-> FailedBefore(frames, f.workspaceId, f.message), execCalls |-> 0,
     outcome |-> NoOutcome, openAtEnd |-> TRUE, escaped |-> FALSE]

\* the handler awaits execAsync: the frame is a chat whose message is a string
FrameDispatches(f) ==
    ~FrameThrows(f) /\ FrameType(f) = "chat" /\ ExecuteCallsExec(FrameMessage(f))
\* the handler answers a chat at once: message.replace threw
FrameFailsAtOnce(f) ==
    ~FrameThrows(f) /\ FrameType(f) = "chat" /\ ~ExecuteCallsExec(FrameMessage(f))

\* the handler up to the await of execAsync: the frame's record
StartFrame(f) ==
    IF FrameDispatches(f)
    THEN [NewFrame(f) EXCEPT !.pc = "exec", !.execCalls = @ + 1]
    ELSE [NewFrame(f) EXCEPT !.pc = "done"]

\* a faulty handler with an else branch that answers the frames it does
\* not know: C28 must tell it apart
FirstSendsAnsweringAll(f, t) ==
    IF FrameThrows(f) THEN <<ErrorFrame(FrameErrorText(f))>>
    ELSE IF FrameType(f) # "chat" THEN <<ErrorFrame("Unknown message type")>>
    ELSE IF FrameDispatches(f) THEN <<Typing(JsTrue)>>
    ELSE <<Typing(JsTrue)>> \o AfterDispatch(ExecuteTypeError, t)

\* ... and what it sends
FirstSends(f, t) ==
    IF FrameThrows(f) THEN <<ErrorFrame(FrameErrorText(f))>>
    ELSE IF FrameType(f) # "chat" THEN <<>>
    ELSE IF FrameDispatches(f) THEN <<Typing(JsTrue)>>
    ELSE <<Typing(JsTrue)>> \o AfterDispatch(ExecuteTypeError, t)

\* a frame arrives at the full or the local server
WsMessage ==
    /\ serverUp /\ wsOpen /\ Arrived < MaxRequests
    /\ variant \in {"full", "simple"}
    /\ \E f \in ControlFrames \cup ChatFrames :
          /\ frames' = Append(frames, StartFrame(f))
          /\ pushed' = Send(Len(frames) + 1, FirstSends(f, now))
    /\ UNCHANGED <<limiter, ui, variant, ops, stopped, serverUp, now, creates,
                   chats, wsOpen, repos, containers>>

\* ws.send on a connection that has closed: the ws library of one version
\* throws "WebSocket is not open", that of another drops the message.
\* Nothing under src/ pins the version.
SendThrows == IF wsOpen THEN {FALSE} ELSE {FALSE, TRUE}

\* execAsync settles for the dispatch of a frame.  The handler sends
\* without looking at ws.readyState; when the send of the response throws,
\* the catch sends an error message, which throws again: the promise of
\* the async listener rejects with nobody to handle it, and Node 18 ends
\* the process.
WsExecReturns ==
    /\ serverUp
    /\ \E i \in 1..Len(frames) :
          /\ frames[i].pc = "exec"
          /\ \E outcome \in SshOutcomes(frames[i].workspaceId), throws \in SendThrows :
                /\ frames' = [frames EXCEPT ![i].pc = "done", ![i].outcome = outcome,
                                            ![i].openAtEnd = wsOpen,
                                            ![i].escaped = throws]
                /\ pushed' = Send(i, AfterDispatch(ExecuteResult(outcome), now))
                /\ serverUp' = ~throws
    /\ UNCHANGED <<limiter, ui, variant, ops, stopped, now, creates, chats,
                   wsOpen, repos, containers>>

\* the Railway demo server has no try around JSON.parse(data) and reads
\* parsed.message: the exception leaves the listener and ends the process
DemoWsMessage ==
    /\ serverUp /\ wsOpen /\ Arrived < MaxRequests
    /\ variant = "railway"
    /\ \E f \in ControlFrames \cup ChatFrames :
          /\ frames' = Append(frames, [NewFrame(f) EXCEPT !.pc = "done"])
          /\ serverUp' = ~FrameThrows(f)
          /\ pushed' = IF FrameThrows(f) THEN pushed
                       ELSE Send(Len(frames) + 1, <<DemoFrame(FrameMessage(f), now)>>)
    /\ UNCHANGED <<limiter, ui, variant, ops, stopped, now, creates, chats,
                   wsOpen, repos, containers>>

\* a faulty close handler that ends the processes of the connection's
\* dispatches: C24 must tell it apart
WsCloseKilling ==
    /\ serverUp /\ wsOpen
    /\ wsOpen' = FALSE
    /\ frames' = [i \in 1..Len(frames) |->
                    IF frames[i].pc = "exec"
                    THEN [frames[i] EXCEPT !.pc = "done", !.openAtEnd = FALSE,
                                           !.outcome = Rejected("Command failed: SIGTERM")]
                    ELSE frames[i]]
    /\ UNCHANGED <<limiter, ui, variant, ops, stopped, serverUp, now, creates,
                   chats, pushed, repos, containers>>

\* the client goes away: ws.on('close') writes a log line
WsClose ==
    /\ serverUp /\ wsOpen
    /\ wsOpen' = FALSE
    /\ UNCHANGED <<limiter, ui, variant, ops, stopped, serverUp, now, creates,
                   chats, frames, pushed, repos, containers>>

(***************************************************************************)
(* POST /api/workspaces/create                                             *)
(***************************************************************************)
NoCalls == [repo |-> 0, mkdir |-> 0, cp |-> 0, git |-> 0, up |-> 0]

\* calls: how often the request has called each external step; ok: the
\* steps that succeeded; failed: the step that failed
NewCreate(userId, projectName) ==
    [userId |-> userId, projectName |-> projectName, id |-> UnknownId,
     pc |-> "start", calls |-> NoCalls, ok |-> {}, failed |-> "",
     reply |-> NoReply]

\* repo.data.html_url and repo.data.clone_url of the created repository
HtmlUrl(id) == <<"html_url", id>>
CloneUrl(id) == <<"clone_url", id>>

\* a faulty validation that looks at userId alone: C27 must tell it apart
CreateRejectsUserOnly(userId, projectName) == userId = Missing

\* if (!userId || !projectName) return res.status(400)...
CreateRejects(userId, projectName) == userId = Missing \/ projectName = Missing

CreateBadRequest ==
    Json(400, [success |-> JsFalse,
               error |-> "Missing required fields: userId and projectName"])

\* the route's catch: res.status(500).json({success: false, error: error.message})
CreateFailure(errorMessage) == Json(500, [success |-> JsFalse, error |-> errorMessage])

\* DevPodManager.createWorkspace's result when every step succeeded
CreatedWorkspace(id) ==
    Obj([success |-> JsTrue, workspaceId |-> id, status |-> "created", output |-> ""])

\* a faulty reply that hands out the clone url as the repository url: C12
\* must tell it apart
CreateSuccessSwappedUrls(v, id) ==
    Json(200, [success |-> JsTrue, workspaceId |-> id,
               repositoryUrl |-> CloneUrl(id), cloneUrl |-> HtmlUrl(id),
               workspace |-> CreatedWorkspace(id)])

\* res.json({success: true, workspaceId, repositoryUrl, cloneUrl, workspace})
CreateSuccess(v, id) ==
    IF v = "full"
    THEN Json(200, [success |-> JsTrue, workspaceId |-> id,
                    repositoryUrl |-> HtmlUrl(id), cloneUrl |-> CloneUrl(id),
                    workspace |-> CreatedWorkspace(id)])
    ELSE Json(200, [success |-> JsTrue, workspaceId |-> id,
                    workspace |-> CreatedWorkspace(id),
                    repositoryUrl |-> "local", cloneUrl |-> "local"])

\* the Railway demo route creates nothing
DemoCreateReply(t) ==
    Json(200, [success |-> JsTrue, workspaceId |-> DemoIdOf(t),
               repositoryUrl |-> "https://github.com/flexpertsdev/ai-workspace-template",
               message |-> "Demo workspace created", limited |-> JsTrue])

\* the request goes on to call the external step `step`
Calls(c, step) == [c EXCEPT !.pc = step, !.calls[step] = @ + 1]
\* the request ends with the reply r
Ends(c, r) == [c EXCEPT !.pc = "done", !.reply = r]
Fails(c, step, outcome) ==
    Ends([c EXCEPT !.failed = step], CreateFailure(outcome.text))
Succeeded(c, step) == [c EXCEPT !.ok = @ \cup {step}]

\* the route reads the clock unless it answers 400
CreateReadsClock(v, userId, projectName) ==
    v = "railway" \/ ~CreateRejects(userId, projectName)

\* the route up to its first await: validation, the id, the first call
StartCreate(v, c, t) ==
    IF v = "railway"
    THEN Ends([c EXCEPT !.id = DemoIdOf(t)], DemoCreateReply(t))
    ELSE IF CreateRejects(c.userId, c.projectName)
    THEN Ends(c, CreateBadRequest)
    ELSE Calls([c EXCEPT !.id = WorkspaceIdOf(c.userId, t)],
               IF v = "full" THEN "repo" ELSE "mkdir")

\* a faulty route that goes on to the container after a failed repository
\* call: C8 must tell it apart
AfterRepoIgnoringFailure(c, outcome) ==
    Calls(IF outcome.kind = "reject" THEN [c EXCEPT !.failed = "repo"]
          ELSE Succeeded(c, "repo"), "up")

\* octokit.repos.createUsingTemplate has settled: on success the route
\* goes on to devpod.createWorkspace, a rejection goes to the route's catch
AfterRepo(c, outcome) ==
    IF outcome.kind = "reject" THEN Fails(c, "repo", outcome)
    ELSE Calls(Succeeded(c, "repo"), "up")

\* a faulty route that calls devpod up again after it failed: C6 must tell
\* it apart
AfterUpRetrying(v, c, outcome) ==
    IF outcome.kind = "reject"
    THEN IF c.calls.up < 2 THEN Calls(c, "up") ELSE Fails(c, "up", outcome)
    ELSE Ends(Succeeded(c, "up"), CreateSuccess(v, c.id))

\* devpod up has settled: createWorkspace returns {success}, and the route
\* throws new Error(workspace.error) when it is false
AfterUp(v, c, outcome) ==
    IF outcome.kind = "reject" THEN Fails(c, "up", outcome)
    ELSE Ends(Succeeded(c, "up"), CreateSuccess(v, c.id))

\* a faulty createWorkspace that runs git init before the template is
\* copied: C30 must tell it apart
NextLocalStepGitFirst(step) ==
    CASE step = "mkdir" -> "git" [] step = "git" -> "cp" [] step = "cp" -> "up"

\* the local createWorkspace: mkdir, cp -r, git init, devpod up, in one try
NextLocalStep(step) ==
    CASE step = "mkdir" -> "cp" [] step = "cp" -> "git" [] step = "git" -> "up"

AfterLocalStep(c, outcome) ==
    IF outcome.kind = "reject" THEN Fails(c, c.pc, outcome)
    ELSE Calls(Succeeded(c, c.pc), NextLocalStep(c.pc))

\* GitHub refuses to create a repository whose name is taken
NameTaken == Rejected("name already exists on this account")
RepoOutcomes(id) == IF id \in repos THEN {NameTaken} ELSE CallOutcomes

PostCreate ==
    /\ serverUp /\ Arrived < MaxRequests
    /\ \E b \in CreateBodies :
       \E t \in ClockReads(CreateReadsClock(variant, b[1], b[2])) :
          /\ now' = t
          /\ creates' = Append(creates, StartCreate(variant, NewCreate(b[1], b[2]), t))
    /\ UNCHANGED <<limiter, ui, variant, ops, stopped, serverUp, chats, frames,
                   pushed, wsOpen, repos, containers>>

OctokitReturns ==
    /\ serverUp
    /\ \E i \in 1..Len(creates) :
          /\ creates[i].pc = "repo"
          /\ \E outcome \in RepoOutcomes(creates[i].id) :
                /\ creates' = [creates EXCEPT ![i] = AfterRepo(@, outcome)]
                /\ repos' = IF outcome.kind = "reject" THEN repos
                            ELSE repos \cup {creates[i].id}
    /\ UNCHANGED <<limiter, ui, variant, ops, stopped, serverUp, now, chats,
                   frames, pushed, wsOpen, containers>>

\* fs.mkdir, cp -r or git init has settled
LocalStepReturns ==
    /\ serverUp
    /\ \E i \in 1..Len(creates) :
          /\ creates[i].pc \in {"mkdir", "cp", "git"}
          /\ \E outcome \in CallOutcomes :
                /\ creates' = [creates EXCEPT ![i] = AfterLocalStep(@, outcome)]
                /\ repos' = IF outcome.kind # "reject" /\ creates[i].pc = "git"
                            THEN repos \cup {creates[i].id} ELSE repos
    /\ UNCHANGED <<limiter, ui, variant, ops, stopped, serverUp, now, chats,
                   frames, pushed, wsOpen, containers>>

DevpodUpReturns ==
    /\ serverUp
    /\ \E i \in 1..Len(creates) :
          /\ creates[i].pc = "up"
          /\ \E outcome \in CallOutcomes :
                /\ creates' = [creates EXCEPT ![i] = AfterUp(variant, @, outcome)]
                /\ containers' = IF outcome.kind = "reject" THEN containers
                                 ELSE containers \cup {creates[i].id}
                \* devpod up starts a workspace that was stopped
                /\ stopped' = IF outcome.kind = "reject" THEN stopped
                              ELSE stopped \ {creates[i].id}
    /\ UNCHANGED <<limiter, ui, variant, ops, serverUp, now, chats, frames,
                   pushed, wsOpen, repos>>

(***************************************************************************)
(* An external process that never terminates.  execAsync(command) and      *)
(* execAsync(command, {maxBuffer}) carry no timeout option: their promise  *)
(* settles when the process exits, and not before.                         *)
(***************************************************************************)
\* the timeout option of the call, in milliseconds; 0 when it has none.
\* Only the local server's devpod up has one: exec kills the process when
\* it expires, and the call rejects (one of CallOutcomes).
TimeoutOf(v, step) == IF v = "simple" /\ step = "up" THEN 300000 ELSE 0

\* devpod ssh of a chat request never exits
PostChatExecHangs ==
    /\ serverUp
    /\ \E i \in 1..Len(chats) :
          /\ chats[i].pc = "exec" /\ TimeoutOf(variant, "exec") = 0
          /\ chats' = [chats EXCEPT ![i].pc = "hung"]
    /\ UNCHANGED <<limiter, ui, variant, ops, stopped, serverUp, now, creates,
                   frames, pushed, wsOpen, repos, containers>>

\* devpod ssh of a chat frame never exits
WsExecHangs ==
    /\ serverUp
    /\ \E i \in 1..Len(frames) :
          /\ frames[i].pc = "exec" /\ TimeoutOf(variant, "exec") = 0
          /\ frames' = [frames EXCEPT ![i].pc = "hung"]
    /\ UNCHANGED <<limiter, ui, variant, ops, stopped, serverUp, now, creates,
                   chats, pushed, wsOpen, repos, containers>>

\* devpod up never exits
DevpodUpHangs ==
    /\ serverUp
    /\ \E i \in 1..Len(creates) :
          /\ creates[i].pc = "up" /\ TimeoutOf(variant, "up") = 0
          /\ creates' = [creates EXCEPT ![i].pc = "hung"]
    /\ UNCHANGED <<limiter, ui, variant, ops, stopped, serverUp, now, chats,
                   frames, pushed, wsOpen, repos, containers>>

(***************************************************************************)
(* GET /api/workspaces/:workspaceId/status, POST .../stop and              *)
(* DELETE /api/workspaces/:workspaceId.  Only the full server has these    *)
(* routes.                                                                 *)
(***************************************************************************)
AdminKinds == {"status", "stop", "delete"}
\* the ids a client asks about: those devpod has, and one it has not
AdminTargets == containers \cup {UnknownId}

\* devpod stop <id> and devpod delete <id> --force fail when devpod has no
\* workspace of that id
DevpodOutcomes(workspaceId) ==
    IF workspaceId \in containers THEN CallOutcomes
    ELSE {Rejected("Command failed: exit 1")}

\* DevPodManager.getWorkspaceStatus: devpod list --output json, then
\* workspaces.find(w => w.id === workspaceId) || { status: 'not_found' }
getWorkspaceStatus(workspaceId, outcome) ==
    IF outcome.kind = "reject" THEN Obj([status |-> "error", error |-> outcome.text])
    ELSE IF workspaceId \in containers
         THEN Obj([id |-> workspaceId,
                   status |-> IF workspaceId \in stopped THEN "Stopped" ELSE "Running"])
         ELSE Obj([status |-> "not_found"])

\* a faulty stopWorkspace without its try: a failed command is reported as
\* done.  C19 must tell it apart.
stopWorkspaceReportingSuccess(outcome) == Obj([success |-> JsTrue])

\* DevPodManager.stopWorkspace: { success: true }, or the catch's result
stopWorkspace(outcome) ==
    IF outcome.kind = "reject" THEN Obj([success |-> JsFalse, error |-> outcome.text])
    ELSE Obj([success |-> JsTrue])

\* DevPodManager.deleteWorkspace
deleteWorkspace(outcome) ==
    IF outcome.kind = "reject" THEN Obj([success |-> JsFalse, error |-> outcome.text])
    ELSE Obj([success |-> JsTrue])

\* res.json(result): the three routes answer with what the manager returned
AdminReply(result) == [status |-> 200, body |-> result]

\* what devpod holds of a workspace id
DevpodState(workspaceId, cs, st) ==
    IF workspaceId \notin cs THEN "absent"
    ELSE IF workspaceId \in st THEN "stopped" ELSE "running"

\* was, became: what devpod held of the id before and after the command
NewOp(kind, workspaceId) ==
    [kind |-> kind, workspaceId |-> workspaceId, pc |-> "exec",
     outcome |-> NoOutcome, was |-> "", became |-> "", reply |-> NoReply]

\* the command of request i has settled
Settled(i, outcome, result, cs, st) ==
    [ops EXCEPT ![i].pc = "done", ![i].outcome = outcome,
                ![i].was = DevpodState(ops[i].workspaceId, containers, stopped),
                ![i].became = DevpodState(ops[i].workspaceId, cs, st),
                ![i].reply = AdminReply(result)]

\* a route up to the await of its devpod command
AdminRequest ==
    /\ serverUp /\ Arrived < MaxRequests
    /\ variant = "full"
    /\ \E kind \in AdminKinds, w \in AdminTargets :
          ops' = Append(ops, NewOp(kind, w))
    /\ UNCHANGED <<limiter, ui, variant, stopped, serverUp, now, creates, chats,
                   frames, pushed, wsOpen, repos, containers>>

\* devpod list has settled
StatusReturns ==
    /\ serverUp
    /\ \E i \in 1..Len(ops) :
          /\ ops[i].pc = "exec" /\ ops[i].kind = "status"
          /\ \E outcome \in CallOutcomes :
                ops' = Settled(i, outcome, getWorkspaceStatus(ops[i].workspaceId, outcome),
                               containers, stopped)
    /\ UNCHANGED <<limiter, ui, variant, stopped, serverUp, now, creates, chats,
                   frames, pushed, wsOpen, repos, containers>>

\* devpod stop has settled
StopReturns ==
    /\ serverUp
    /\ \E i \in 1..Len(ops) :
          /\ ops[i].pc = "exec" /\ ops[i].kind = "stop"
          /\ \E outcome \in DevpodOutcomes(ops[i].workspaceId) :
                /\ stopped' = IF outcome.kind = "reject" THEN stopped
                              ELSE stopped \cup {ops[i].workspaceId}
                /\ ops' = Settled(i, outcome, stopWorkspace(outcome), containers, stopped')
    /\ UNCHANGED <<limiter, ui, variant, serverUp, now, creates, chats, frames,
                   pushed, wsOpen, repos, containers>>

\* devpod delete --force has settled: the repository stays
DeleteReturns ==
    /\ serverUp
    /\ \E i \in 1..Len(ops) :
          /\ ops[i].pc = "exec" /\ ops[i].kind = "delete"
          /\ \E outcome \in DevpodOutcomes(ops[i].workspaceId) :
                /\ containers' = IF outcome.kind = "reject" THEN containers
                                 ELSE containers \ {ops[i].workspaceId}
                /\ stopped' = IF outcome.kind = "reject" THEN stopped
                              ELSE stopped \ {ops[i].workspaceId}
                /\ ops' = Settled(i, outcome, deleteWorkspace(outcome), containers', stopped')
    /\ UNCHANGED <<limiter, ui, variant, serverUp, now, creates, chats, frames,
                   pushed, wsOpen, repos>>

(***************************************************************************)
(* The rate limiter of the creation route: express-rate-limit with its     *)
(* memory store, keyed by req.ip.  The local server installs none.         *)
(***************************************************************************)
WindowMs == 3600000      \* windowMs: 60 * 60 * 1000
CreateMax == 5           \* max: 5
\* the instants at which the model lets requests arrive: half windows
StepMs == WindowMs \div 2

\* hits, resetTime: the store's entry of the client; reachedAt: the times
\* at which a request of the client was passed on to the route; limited:
\* the requests answered 429
EmptyStore == [hits |-> 0, resetTime |-> 0, reachedAt |-> <<>>, limited |-> 0]

HasCreateLimiter(v) == v = "full"

\* the store's increment: a window that has expired starts again
Increment(l, t) ==
    IF t >= l.resetTime
    THEN [l EXCEPT !.hits = 1, !.resetTime = t + WindowMs]
    ELSE [l EXCEPT !.hits = @ + 1]

\* the middleware: 429 once the hits of the window exceed max, next() else
Limit(v, l, t) ==
    IF ~HasCreateLimiter(v) THEN [l EXCEPT !.reachedAt = Append(@, t)]
    ELSE IF Increment(l, t).hits > CreateMax
    THEN [Increment(l, t) EXCEPT !.limited = @ + 1]
    ELSE [Increment(l, t) EXCEPT !.reachedAt = Append(@, t)]

\* time passes
LimiterTick ==
    /\ now < MaxTicks * StepMs
    /\ now' = now + StepMs
    /\ UNCHANGED <<limiter, ui, variant, serverUp, creates, chats, frames,
                   pushed, wsOpen, repos, containers, stopped, ops>>

\* POST /api/workspaces/create arrives at app.use('/api/workspaces/create', ...)
LimitedCreate ==
    /\ Len(limiter.reachedAt) + limiter.limited < MaxLimited
    /\ limiter' = Limit(variant, limiter, now)
    /\ UNCHANGED <<ui, variant, serverUp, now, creates, chats, frames, pushed,
                   wsOpen, repos, containers, stopped, ops>>

(***************************************************************************)
(* The chat page: src/frontend/src/App.tsx.  The component's state, the    *)
(* WebSocket it opens, and the server as the page sees it: the messages    *)
(* on their way to the page.                                               *)
(***************************************************************************)
\* useState(...): the page before its first effect has run.
\* socket: "none" while wsConnection is null, else the readyState;
\* attempts: the calls of sendMessage that passed its guard, each with the
\*   readyState it found and the number of requests unanswered then;
\* stage: per frame that went out, 0 received by nobody yet, 1 dispatched,
\*   2 result pushed; inbox: the messages on their way to ws.onmessage;
\* answered: the responses and errors the page has handled
PageLoaded ==
    [workspaceStatus |-> "idle", socket |-> "none", isTyping |-> FALSE,
     inputMessage |-> "", attempts |-> <<>>, stage |-> <<>>, inbox |-> <<>>,
     answered |-> 0]

UiUnchanged ==
    UNCHANGED <<limiter, variant, serverUp, now, creates, chats, frames, pushed,
                wsOpen, repos, containers, stopped, ops>>

\* the frames of the page that got an answer handled, and those that did not
Unanswered(u) == Len(u.stage) - u.answered

\* useEffect(() => { initializeWorkspace() }, []) up to the await of fetch
UiInitialize ==
    /\ ui.workspaceStatus = "idle"
    /\ ui' = [ui EXCEPT !.workspaceStatus = "creating"]
    /\ UiUnchanged

\* the creation request is answered: data.success sets the status, makes
\* the WebSocket (readyState CONNECTING) and sets onmessage; anything else
\* goes to the catch
UiCreateResolves ==
    /\ ui.workspaceStatus = "creating"
    /\ \E success \in BOOLEAN :
          ui' = IF success
                THEN [ui EXCEPT !.workspaceStatus = "ready", !.socket = "connecting"]
                ELSE [ui EXCEPT !.workspaceStatus = "error"]
    /\ UiUnchanged

\* the handshake completes; the page has no onopen handler
UiSocketOpens ==
    /\ ui.socket = "connecting"
    /\ ui' = [ui EXCEPT !.socket = "open"]
    /\ UiUnchanged

\* the connection is lost; the page has no onclose or onerror handler, and
\* what was on its way is lost with it
UiSocketCloses ==
    /\ ui.socket \in {"connecting", "open"}
    /\ ui' = [ui EXCEPT !.socket = "closed", !.inbox = <<>>]
    /\ UiUnchanged

\* <textarea disabled={workspaceStatus !== 'ready' || isTyping}>
TextareaEnabled(u) == u.workspaceStatus = "ready" /\ ~u.isTyping
\* <button disabled={!inputMessage.trim() || workspaceStatus !== 'ready' || isTyping}>
SendButtonEnabled(u) ==
    u.inputMessage # "" /\ u.workspaceStatus = "ready" /\ ~u.isTyping

\* the user types: onChange={(e) => setInputMessage(e.target.value)}
UiTypes ==
    /\ TextareaEnabled(ui) /\ ui.inputMessage = ""
    /\ ui' = [ui EXCEPT !.inputMessage = "text"]
    /\ UiUnchanged

\* a quick suggestion: onClick={() => setInputMessage("...")}; these
\* buttons are never disabled
UiQuickSuggestion ==
    /\ ui.inputMessage = ""
    /\ ui' = [ui EXCEPT !.inputMessage = "text"]
    /\ UiUnchanged

\* if (!inputMessage.trim() || !wsConnection || workspaceStatus !== 'ready') return
SendGuard(u) ==
    u.inputMessage # "" /\ u.socket # "none" /\ u.workspaceStatus = "ready"

\* sendMessage past its guard.  WebSocket.send throws InvalidStateError
\* while CONNECTING, so setInputMessage('') is not reached; once the
\* socket is closing or closed it drops the data without a word.
sendMessage(u) ==
    LET tried == [u EXCEPT !.attempts =
                     Append(@, [readyState |-> u.socket, unanswered |-> Unanswered(u)])]
    IN  CASE u.socket = "open" ->
                [tried EXCEPT !.stage = Append(@, 0), !.inputMessage = ""]
          [] u.socket = "connecting" -> tried
          [] OTHER -> [tried EXCEPT !.inputMessage = ""]

\* Enter in the textarea, or a click on the send button
UiSendMessage ==
    /\ Len(ui.attempts) < MaxSends
    /\ TextareaEnabled(ui) \/ SendButtonEnabled(ui)
    /\ SendGuard(ui)
    /\ ui' = sendMessage(ui)
    /\ UiUnchanged

\* the server's message handler for a chat frame of the page: typing:true
\* before the await, the response and typing:false after it
UiServerReceives ==
    /\ ui.socket = "open"
    /\ \E k \in 1..Len(ui.stage) :
          /\ ui.stage[k] = 0
          /\ \A j \in 1..(k - 1) : ui.stage[j] > 0
          /\ ui' = [ui EXCEPT !.stage[k] = 1, !.inbox = Append(@, Typing(JsTrue))]
    /\ UiUnchanged

UiServerAnswers ==
    /\ ui.socket = "open"
    /\ \E k \in 1..Len(ui.stage) :
          /\ ui.stage[k] = 1
          /\ ui' = [ui EXCEPT !.stage[k] = 2,
                              !.inbox = @ \o <<[type |-> "response"], Typing(JsFalse)>>]
    /\ UiUnchanged

\* switch (data.type): typing sets isTyping, response and error clear it
handleWebSocketMessage(u, data) ==
    CASE data.type = "typing" -> [u EXCEPT !.isTyping = (data.status = JsTrue)]
      [] data.type \in {"response", "error"} ->
            [u EXCEPT !.isTyping = FALSE, !.answered = @ + 1]
      [] OTHER -> u

\* ws.onmessage
UiOnMessage ==
    /\ ui.inbox # <<>>
    /\ ui' = [handleWebSocketMessage(ui, Head(ui.inbox)) EXCEPT !.inbox = Tail(ui.inbox)]
    /\ UiUnchanged

(***************************************************************************)
(* The specification.                                                      *)
(***************************************************************************)
Init ==
    /\ variant \in Variants
    /\ serverUp = TRUE
    /\ now = 0
    /\ creates = <<>> /\ chats = <<>> /\ frames = <<>> /\ pushed = <<>>
    /\ wsOpen = TRUE
    /\ repos = {PriorId} /\ containers = {PriorId} /\ stopped = {}
    /\ ops = <<>>
    /\ limiter = EmptyStore
    /\ ui = PageLoaded

Next ==
    \/ PostCreate
    \/ OctokitReturns
    \/ LocalStepReturns
    \/ DevpodUpReturns
    \/ PostChat
    \/ PostChatExecReturns
    \/ WsMessage
    \/ WsExecReturns
    \/ DemoWsMessage
    \/ WsClose
    \/ PostChatExecHangs
    \/ WsExecHangs
    \/ DevpodUpHangs
    \/ AdminRequest
    \/ StatusReturns
    \/ StopReturns
    \/ DeleteReturns

Spec == Init /\ [][Next]_vars

\* Node runs the continuation of every promise that settles: a command
\* that exits is followed by the rest of its handler.  Nothing makes an
\* external process exit.
Fairness ==
    /\ WF_vars(OctokitReturns) /\ WF_vars(LocalStepReturns) /\ WF_vars(DevpodUpReturns)
    /\ WF_vars(PostChatExecReturns) /\ WF_vars(WsExecReturns)
    /\ WF_vars(StatusReturns) /\ WF_vars(StopReturns) /\ WF_vars(DeleteReturns)

LiveSpec == Spec /\ Fairness

\* one client and the rate limiter of the creation route, on the two
\* servers that provision
LimiterInit == Init /\ variant \in {"full", "simple"}
LimiterNext ==
    \/ LimiterTick
    \/ LimitedCreate
LimiterSpec == LimiterInit /\ [][LimiterNext]_vars

\* the chat page and the full server it talks to
UiInit == Init /\ variant = "full"
UiNext ==
    \/ UiInitialize
    \/ UiCreateResolves
    \/ UiSocketOpens
    \/ UiSocketCloses
    \/ UiTypes
    \/ UiQuickSuggestion
    \/ UiSendMessage
    \/ UiServerReceives
    \/ UiServerAnswers
    \/ UiOnMessage
UiSpec == UiInit /\ [][UiNext]_vars

(***************************************************************************)
(* Vocabulary of the properties.                                           *)
(***************************************************************************)
Guarded == variant \in {"full", "simple"}     \* the servers that dispatch

\* what the connection was sent on behalf of frame i, in order
MsgsOf(i) == SelectSeq(pushed, LAMBDA m : m.req = i)
\* the type of each message, and the status of a typing message
Kinds(ms) ==
    [k \in 1..Len(ms) |->
        <<ms[k].msg.type,
          IF "status" \in DOMAIN ms[k].msg THEN ms[k].msg.status ELSE "">>]
WithoutTimestamp(m) == [k \in DOMAIN m \ {"timestamp"} |-> m[k]]

\* the collaborator failed: it exited non-zero or timed out (the call
\* rejected), or its output does not parse
DispatchFailed(o) ==
    o.kind = "reject" \/ (o.kind = "stdout" /\ JsonParse(o.text).threw)
\* a well-formed structured result: a success flag plus response text
WellFormed(v) == Has(v, "success") /\ Has(v, "response")
\* ... or its output parses but is no structured result
DispatchMalformed(o) ==
    o.kind = "stdout" /\ ~JsonParse(o.text).threw
                      /\ ~WellFormed(JsonParse(o.text).value)
IsCanned(v) == Get(v, "success") = JsFalse /\ Get(v, "response") = CannedResponse

ChatDone(i) == chats[i].pc = "done"
FrameDone(i) == frames[i].pc = "done"
IsChatFrame(i) == frames[i].syntax = "object" /\ frames[i].type = "chat"

(***************************************************************************)
(* C1.  For every inbound chat frame on an open connection the server      *)
(* pushes exactly three messages for that request, in this order:          *)
(* {type: typing, status: true}, {type: response, ...}, {type: typing,     *)
(* status: false}, whether the dispatch succeeded or failed.               *)
(***************************************************************************)
C1_TypingResponseTyping ==
    \A i \in 1..Len(frames) :
        (Guarded /\ IsChatFrame(i) /\ FrameDone(i) /\ frames[i].openAtEnd)
        => Kinds(MsgsOf(i)) =
              << <<"typing", JsTrue>>, <<"response", "">>, <<"typing", JsFalse>> >>

\* C1, as far as the code keeps it: three messages, a typing:true first
\* and a typing:false last, and a response in between unless the
\* collaborator's result has a type key of its own.
C1_ThreeMessagesUnlessTypeKey ==
    \A i \in 1..Len(frames) :
        (Guarded /\ IsChatFrame(i) /\ FrameDone(i) /\ frames[i].openAtEnd)
        => LET ks == Kinds(MsgsOf(i)) IN
           /\ Len(ks) = 3
           /\ ks[1] = <<"typing", JsTrue>> /\ ks[3] = <<"typing", JsFalse>>
           /\ \/ ks[2] = <<"response", "">>
              \/ /\ frames[i].outcome.kind = "stdout"
                 /\ Has(JsonParse(frames[i].outcome.text).value, "type")

(***************************************************************************)
(* C2.  A chat request that carries a message is answered by the HTTP      *)
(* chat route with a 2xx status and a payload whose success field is       *)
(* false whenever the collaborator fails (non-zero exit, timeout,          *)
(* unparseable output); a dispatch failure is never answered 5xx.          *)
(***************************************************************************)
C2_FailedDispatchIs200 ==
    \A i \in 1..Len(chats) :
        (Guarded /\ ChatDone(i) /\ ~ChatRejects(chats[i].message))
        => /\ chats[i].reply.status < 500
           /\ (DispatchFailed(chats[i].outcome) \/ ~ExecuteCallsExec(chats[i].message))
              => /\ chats[i].reply.status \in 200..299
                 /\ Get(chats[i].reply.body, "success") = JsFalse

\* a chat whose collaborator wrote unparseable output has been answered
C2_Witness ==
    \E i \in 1..Len(chats) :
        /\ Guarded /\ ChatDone(i)
        /\ chats[i].outcome.kind = "stdout" /\ DispatchFailed(chats[i].outcome)
        /\ chats[i].reply.status = 200

(***************************************************************************)
(* C3.  Whenever the collaborator exits non-zero, times out or returns     *)
(* output that is no well-formed structured result, the dispatch result    *)
(* has success = false and the canned message; output that parses but      *)
(* lacks the success flag or the response text is a failure too.           *)
(***************************************************************************)
C3_MalformedResultIsFailure ==
    \A i \in 1..Len(chats) :
        (Guarded /\ ChatDone(i)
            /\ (DispatchFailed(chats[i].outcome) \/ DispatchMalformed(chats[i].outcome)))
        => IsCanned(chats[i].reply.body)

\* C3 for the failures the code does catch: a rejected call and output
\* that does not parse
C3_CaughtFailureIsCanned ==
    \A i \in 1..Len(chats) :
        (Guarded /\ ChatDone(i) /\ DispatchFailed(chats[i].outcome))
        => IsCanned(chats[i].reply.body)

(***************************************************************************)
(* C4.  The reply to a failed dispatch holds no text derived from the      *)
(* underlying error: two failed dispatches of the same request that        *)
(* differ only in the underlying error get the same reply, the timestamp   *)
(* apart.                                                                  *)
(***************************************************************************)
FailedChats ==
    {i \in 1..Len(chats) : ChatDone(i) /\ DispatchFailed(chats[i].outcome)}
FailedFrames ==
    {i \in 1..Len(frames) :
        /\ IsChatFrame(i) /\ FrameDone(i) /\ DispatchFailed(frames[i].outcome)
        /\ Len(MsgsOf(i)) = 3}

C4_FailureReplyHidesError ==
    /\ \A i, j \in FailedChats :
          (chats[i].workspaceId = chats[j].workspaceId
              /\ chats[i].message = chats[j].message)
          => chats[i].reply = chats[j].reply
    /\ \A i, j \in FailedFrames :
          (frames[i].workspaceId = frames[j].workspaceId
              /\ frames[i].message = frames[j].message)
          => WithoutTimestamp(MsgsOf(i)[2].msg) = WithoutTimestamp(MsgsOf(j)[2].msg)

(***************************************************************************)
(* C5.  For every inbound frame that does not parse the server pushes      *)
(* exactly one {type: error} message, invokes no collaborator, and keeps   *)
(* running.                                                                *)
(***************************************************************************)
C5_MalformedFrameGetsError ==
    \A i \in 1..Len(frames) :
        frames[i].syntax = "garbage"
        => /\ Kinds(MsgsOf(i)) = << <<"error", "">> >>
           /\ frames[i].execCalls = 0
           /\ serverUp

\* C5 on the two servers whose handler has a try around JSON.parse
C5_HoldsWithTry ==
    \A i \in 1..Len(frames) :
        (Guarded /\ frames[i].syntax = "garbage")
        => /\ Kinds(MsgsOf(i)) = << <<"error", "">> >>
           /\ frames[i].execCalls = 0
           /\ serverUp

(***************************************************************************)
(* C6.  One creation request calls the repository step at most once and    *)
(* the container step at most once; once a step has failed the request     *)
(* makes no further call and the failure is what the caller gets.          *)
(***************************************************************************)
C6_NoRetry ==
    \A i \in 1..Len(creates) :
        LET c == creates[i] IN
        /\ \A step \in DOMAIN c.calls : c.calls[step] <= 1
        /\ c.failed # ""
           => /\ c.pc = "done"
              /\ c.reply.status = 500
              /\ Get(c.reply.body, "success") = JsFalse
              /\ Has(c.reply.body, "error")
        /\ c.failed = "repo" => c.calls.up = 0

\* the container step failed after the repository step had succeeded
C6_Witness ==
    \E i \in 1..Len(creates) :
        /\ creates[i].failed = "up" /\ "repo" \in creates[i].ok
        /\ creates[i].calls.repo = 1 /\ creates[i].calls.up = 1
        /\ creates[i].reply.status = 500

(***************************************************************************)
(* C7.  If the repository step succeeds and the container step then        *)
(* fails, the result the caller gets is a failure that still carries the   *)
(* repositoryUrl of the repository that was created, and no container.     *)
(***************************************************************************)
C7_FailureKeepsRepositoryUrl ==
    \A i \in 1..Len(creates) :
        (variant = "full" /\ creates[i].failed = "up" /\ "repo" \in creates[i].ok)
        => /\ Get(creates[i].reply.body, "success") = JsFalse
           /\ Has(creates[i].reply.body, "repositoryUrl")
           /\ ~Has(creates[i].reply.body, "workspace")

(***************************************************************************)
(* C8.  The container step comes after the repository step: when the       *)
(* repository step fails the container step is never called and the        *)
(* result is a failure without repositoryUrl and without container; a      *)
(* workspace that has a container had its repository first.                *)
(***************************************************************************)
\* the step that provisions the repository: the GitHub template call, or
\* the local mkdir, cp -r and git init
RepoSteps == IF variant = "full" THEN {"repo"} ELSE {"mkdir", "cp", "git"}

C8_ContainerAfterRepository ==
    /\ \A i \in 1..Len(creates) :
          LET c == creates[i] IN
          /\ c.failed \in RepoSteps
             => /\ c.calls.up = 0 /\ c.pc = "done"
                /\ Get(c.reply.body, "success") = JsFalse
                /\ ~Has(c.reply.body, "repositoryUrl")
                /\ ~Has(c.reply.body, "workspace")
          /\ c.calls.up > 0 => RepoSteps \subseteq c.ok
    /\ containers \subseteq repos

\* the repository step of a request has failed
C8_Witness ==
    \E i \in 1..Len(creates) :
        creates[i].failed \in RepoSteps /\ creates[i].reply.status = 500

(***************************************************************************)
(* C9.  A chat dispatch for a workspace id that is not ready (unknown, or  *)
(* its container not up) is refused and the command-execution              *)
(* collaborator is not invoked for it.                                     *)
(***************************************************************************)
C9_NotReadyIsNotDispatched ==
    /\ \A i \in 1..Len(chats) : ~chats[i].ready => chats[i].execCalls = 0
    /\ \A i \in 1..Len(frames) : ~frames[i].ready => frames[i].execCalls = 0

(***************************************************************************)
(* C10.  Workspace ids are unique: any two creation requests, also two of  *)
(* the same userId handled at the same clock instant, get different ids.   *)
(***************************************************************************)
C10_IdsUnique ==
    \A i, j \in 1..Len(creates) :
        (i # j /\ creates[i].id # UnknownId /\ creates[j].id # UnknownId)
        => creates[i].id # creates[j].id

(***************************************************************************)
(* C11.  A second creation for an id that already exists fails with a      *)
(* duplicate error and performs no provisioning side effect: of two        *)
(* creation requests with the same id at most one makes a provisioning     *)
(* step succeed, and the other one is answered with a failure.             *)
(***************************************************************************)
C11_DuplicateCreateFailsFast ==
    \A i, j \in 1..Len(creates) :
        (i # j /\ creates[i].id # UnknownId /\ creates[i].id = creates[j].id
            /\ creates[i].ok # {})
        => /\ creates[j].ok = {}
           /\ creates[j].pc = "done" => Get(creates[j].reply.body, "success") = JsFalse

(***************************************************************************)
(* C12.  When the repository step and the container step both succeed,     *)
(* the full server answers 200 with success true, the generated id, the    *)
(* html_url and clone_url of the repository created under that id, and     *)
(* the container was created under that same id.                           *)
(***************************************************************************)
\* devpod delete has removed the container of this id since
DeletedSince(id) ==
    \E k \in 1..Len(ops) :
        /\ ops[k].kind = "delete" /\ ops[k].workspaceId = id
        /\ ops[k].was # "absent" /\ ops[k].became = "absent"

C12_SuccessCarriesCollaboratorValues ==
    \A i \in 1..Len(creates) :
        LET c == creates[i] IN
        (variant = "full" /\ {"repo", "up"} \subseteq c.ok)
        => /\ c.pc = "done" /\ c.reply.status = 200
           /\ Get(c.reply.body, "success") = JsTrue
           /\ \E t \in 0..now : c.id = WorkspaceIdOf(c.userId, t)
           /\ c.reply.body.fields.workspaceId = c.id
           /\ c.reply.body.fields.repositoryUrl = HtmlUrl(c.id)
           /\ c.reply.body.fields.cloneUrl = CloneUrl(c.id)
           /\ c.reply.body.fields.workspace.fields.workspaceId = c.id
           /\ c.id \in repos
           /\ c.id \in containers \/ DeletedSince(c.id)

\* a creation request of the full server has been answered with success
C12_Witness ==
    \E i \in 1..Len(creates) :
        /\ variant = "full" /\ {"repo", "up"} \subseteq creates[i].ok
        /\ creates[i].pc = "done" /\ creates[i].id \in containers

(***************************************************************************)
(* C13.  Every chat dispatch and every container-provisioning call waits   *)
(* a bounded time only: a chat request, a chat frame or a creation         *)
(* request that is waiting for its external process is eventually          *)
(* answered, also when the process never terminates.                       *)
(***************************************************************************)
C13_EveryDispatchReturns ==
    \A i \in 1..MaxRequests :
        /\ (i <= Len(frames) /\ frames[i].pc = "exec")
              ~> (i <= Len(frames) /\ frames[i].pc = "done")
        /\ (i <= Len(chats) /\ chats[i].pc = "exec")
              ~> (i <= Len(chats) /\ chats[i].pc = "done")
        /\ (i <= Len(creates) /\ creates[i].pc = "up")
              ~> (i <= Len(creates) /\ creates[i].pc = "done")

\* C13 where the code does bound the wait: devpod up of the local server
C13_LocalDevpodUpReturns ==
    \A i \in 1..MaxRequests :
        (variant = "simple" /\ i <= Len(creates) /\ creates[i].pc = "up")
            ~> (i <= Len(creates) /\ creates[i].pc = "done")

(***************************************************************************)
(* C14.  A chat dispatch that fails changes nothing about the workspace:   *)
(* the same message sent again for the same workspace id, on either        *)
(* transport, is accepted and dispatched to the collaborator again, and    *)
(* the workspace is as ready as it was unless it has been deleted since.   *)
(***************************************************************************)
\* chat requests and chat frames
C14_ResendIsDispatched ==
    /\ \A j \in 1..Len(chats) :
          (Guarded /\ chats[j].resend)
          => /\ chats[j].execCalls = 1
             /\ chats[j].pc = "done" => chats[j].reply.status = 200
             /\ \A i \in 1..(j - 1) :
                   (chats[i].workspaceId = chats[j].workspaceId /\ chats[i].ready)
                   => chats[j].ready \/ DeletedSince(chats[j].workspaceId)
    /\ \A j \in 1..Len(frames) :
          (Guarded /\ frames[j].resend)
          => /\ frames[j].execCalls = 1
             /\ \A i \in 1..(j - 1) :
                   (frames[i].workspaceId = frames[j].workspaceId /\ frames[i].ready)
                   => frames[j].ready \/ DeletedSince(frames[j].workspaceId)

\* a message whose dispatch to a ready workspace failed has been sent
\* again and the collaborator has answered it
C14_Witness ==
    \E i, j \in 1..Len(chats) :
        /\ Guarded /\ i < j /\ chats[i].ready /\ chats[j].resend /\ chats[j].ready
        /\ chats[i].workspaceId = chats[j].workspaceId
        /\ chats[j].pc = "done" /\ chats[j].outcome.kind = "stdout"
        /\ Get(chats[j].reply.body, "success") = JsTrue

(***************************************************************************)
(* C15.  Operations on different workspace ids do not block each other:    *)
(* while the external command of one workspace has not returned and never  *)
(* will, a new create, chat, status, stop or delete request is still       *)
(* accepted, and a request for another id that is waiting for its own      *)
(* command is still run to its answer.                                     *)
(***************************************************************************)
\* the ids that have a command in flight that will never return
HungIds ==
    {chats[i].workspaceId : i \in {k \in 1..Len(chats) : chats[k].pc = "hung"}}
    \cup {frames[i].workspaceId : i \in {k \in 1..Len(frames) : frames[k].pc = "hung"}}
    \cup {creates[i].id : i \in {k \in 1..Len(creates) : creates[k].pc = "hung"}}

\* a request of reqs for another id is at one of the steps pcs
Waiting(reqs, pcs) ==
    \E i \in 1..Len(reqs) : reqs[i].pc \in pcs /\ reqs[i].workspaceId \notin HungIds
WaitingCreate(pcs) ==
    \E i \in 1..Len(creates) : creates[i].pc \in pcs /\ creates[i].id \notin HungIds
WaitingOp(kind) ==
    \E i \in 1..Len(ops) :
        ops[i].pc = "exec" /\ ops[i].kind = kind /\ ops[i].workspaceId \notin HungIds

C15_OthersNotBlocked ==
    (serverUp /\ HungIds # {})
    => /\ Arrived < MaxRequests
          => /\ ENABLED PostCreate /\ ENABLED PostChat
             /\ variant = "full" => ENABLED AdminRequest
             /\ (Guarded /\ wsOpen) => ENABLED WsMessage
       /\ Waiting(chats, {"exec"}) => ENABLED PostChatExecReturns
       /\ Waiting(frames, {"exec"}) => ENABLED WsExecReturns
       /\ WaitingCreate({"repo"}) => ENABLED OctokitReturns
       /\ WaitingCreate({"mkdir", "cp", "git"}) => ENABLED LocalStepReturns
       /\ WaitingCreate({"up"}) => ENABLED DevpodUpReturns
       /\ WaitingOp("status") => ENABLED StatusReturns
       /\ WaitingOp("stop") => ENABLED StopReturns
       /\ WaitingOp("delete") => ENABLED DeleteReturns

\* a chat for one workspace hangs, and a request for another id that came
\* after it has been answered
C15_Witness ==
    \E i \in 1..Len(chats) :
        /\ chats[i].pc = "hung"
        /\ \/ \E j \in (i + 1)..Len(chats) :
                 /\ chats[j].workspaceId # chats[i].workspaceId
                 /\ chats[j].pc = "done" /\ chats[j].execCalls = 1
           \/ \E j \in 1..Len(ops) :
                 /\ ops[j].workspaceId # chats[i].workspaceId /\ ops[j].pc = "done"
           \/ \E j \in 1..Len(creates) :
                 /\ creates[j].pc = "done" /\ creates[j].reply.status = 200

(***************************************************************************)
(* C16.  Two chat dispatches for the same ready workspace may be in        *)
(* flight at the same time, and each caller gets the result of its own     *)
(* dispatch: the reply of a chat request, and the response pushed for a    *)
(* chat frame, is made of the outcome of that request's own command.       *)
(***************************************************************************)
C16_EachGetsItsOwnResult ==
    /\ \A i \in 1..Len(chats) :
          (Guarded /\ ChatDone(i) /\ chats[i].execCalls = 1)
          => chats[i].reply = [status |-> 200,
                               body |-> ExecuteResult(chats[i].outcome).value]
    /\ \A i \in 1..Len(frames) :
          (Guarded /\ FrameDone(i) /\ frames[i].execCalls = 1 /\ frames[i].openAtEnd)
          => /\ Len(MsgsOf(i)) = 3
             /\ \E t \in 0..now :
                   MsgsOf(i)[2].msg =
                       ResponseFrame(ExecuteResult(frames[i].outcome).value, t)

\* two dispatches for one ready workspace overlap: the later one has been
\* answered with its own result while the earlier one is still in flight
C16_Witness ==
    \/ \E i, j \in 1..Len(chats) :
          /\ Guarded /\ i < j /\ chats[i].workspaceId = chats[j].workspaceId
          /\ chats[i].ready /\ chats[j].ready
          /\ chats[i].pc = "exec" /\ chats[j].pc = "done"
          /\ chats[j].outcome.kind = "stdout"
    \/ \E i, j \in 1..Len(frames) :
          /\ Guarded /\ i < j /\ frames[i].workspaceId = frames[j].workspaceId
          /\ frames[i].ready /\ frames[j].ready
          /\ frames[i].pc = "exec" /\ frames[j].pc = "done"
          /\ frames[j].outcome.kind = "stdout" /\ Len(MsgsOf(j)) = 3

(***************************************************************************)
(* C17.  Every response message pushed on the connection carries the       *)
(* workspaceId of the chat frame that triggered it.                        *)
(***************************************************************************)
C17_ResponseEchoesWorkspaceId ==
    \A k \in 1..Len(pushed) :
        (Guarded /\ pushed[k].msg.type = "response")
        => /\ "workspaceId" \in DOMAIN pushed[k].msg
           /\ pushed[k].msg.workspaceId = frames[pushed[k].req].workspaceId

(***************************************************************************)
(* C18.  The two transports are consistent: a chat request and a chat      *)
(* frame with the same workspace id and message are both dispatched to     *)
(* the collaborator or both not, and when their commands end alike they    *)
(* deliver the same success flag and response text.                        *)
(***************************************************************************)
\* a field of a pushed message, undefined when it has none
Field(m, k) == IF k \in DOMAIN m THEN m[k] ELSE Missing

C18_TransportsAgree ==
    \A i \in 1..Len(chats), j \in 1..Len(frames) :
        (Guarded /\ IsChatFrame(j)
            /\ chats[i].workspaceId = frames[j].workspaceId
            /\ chats[i].message = frames[j].message)
        => /\ (chats[i].execCalls = 0) <=> (frames[j].execCalls = 0)
           /\ (chats[i].execCalls = 1 /\ ChatDone(i) /\ FrameDone(j)
                  /\ chats[i].outcome = frames[j].outcome /\ Len(MsgsOf(j)) = 3)
              => /\ Get(chats[i].reply.body, "success") = Field(MsgsOf(j)[2].msg, "success")
                 /\ Get(chats[i].reply.body, "response") = Field(MsgsOf(j)[2].msg, "response")

\* C18 for the requests both transports dispatch: same outcome, same
\* success flag and response text
C18_SameResultWhenDispatched ==
    \A i \in 1..Len(chats), j \in 1..Len(frames) :
        (Guarded /\ IsChatFrame(j)
            /\ chats[i].execCalls = 1 /\ frames[j].execCalls = 1
            /\ ChatDone(i) /\ FrameDone(j) /\ chats[i].outcome = frames[j].outcome
            /\ Len(MsgsOf(j)) = 3)
        => /\ Get(chats[i].reply.body, "success") = Field(MsgsOf(j)[2].msg, "success")
           /\ Get(chats[i].reply.body, "response") = Field(MsgsOf(j)[2].msg, "response")

C20_StatusOfAbsentIs404 ==
    \A i \in 1..Len(ops) :
        (ops[i].pc = "done" /\ ops[i].kind = "status")
        => /\ (ops[i].outcome.kind = "stdout" /\ ops[i].was # "absent")
              => /\ ops[i].reply.status = 200
                 /\ Has(ops[i].reply.body, "id")
           /\ (ops[i].outcome.kind = "stdout" /\ ops[i].was = "absent")
              => ops[i].reply.status = 404
           /\ ops[i].outcome.kind = "reject" => ops[i].reply.status # 200

\* C20 for the ids devpod has: 200 with that workspace's entry
C20_StatusOfKnownIs200 ==
    \A i \in 1..Len(ops) :
        (ops[i].pc = "done" /\ ops[i].kind = "status"
            /\ ops[i].outcome.kind = "stdout" /\ ops[i].was # "absent")
        => /\ ops[i].reply.status = 200
           /\ ops[i].reply.body.fields.id = ops[i].workspaceId

(***************************************************************************)
(* C21.  Workspace creation is rate limited per client: within any one     *)
(* hour at most 5 creation requests of one client IP are passed on to the  *)
(* creation route.                                                         *)
(***************************************************************************)
C21_AtMostFivePerHour ==
    \A k \in 1..Len(limiter.reachedAt) :
        Cardinality({j \in k..Len(limiter.reachedAt) :
                        limiter.reachedAt[j] < limiter.reachedAt[k] + WindowMs})
            <= CreateMax

\* C21 as far as the full server keeps it: at most 5 within one window of
\* the store, which starts with the first request after the last one ended
C21_AtMostFivePerStoreWindow ==
    HasCreateLimiter(variant)
    => /\ limiter.hits <= CreateMax + limiter.limited
       /\ Cardinality({j \in 1..Len(limiter.reachedAt) :
                          /\ limiter.reachedAt[j] >= limiter.resetTime - WindowMs
                          /\ limiter.reachedAt[j] < limiter.resetTime})
              <= CreateMax

(***************************************************************************)
(* C22.  A connection is idle or dispatching: a chat frame starts a        *)
(* dispatch only when no dispatch of the connection is running, so at most *)
(* one is in flight at any time, and typing:false is never pushed while    *)
(* another dispatch of the connection is still running.                    *)
(***************************************************************************)
InFlight(i) == frames[i].pc \in {"exec", "hung"}

C22_OneDispatchPerConnection ==
    /\ \A i, j \in 1..Len(frames) : (InFlight(i) /\ InFlight(j)) => i = j
    /\ \A i, j \in 1..Len(frames) :
          (i < j /\ InFlight(i)) => frames[j].execCalls = 0

\* the second half of C22: a frame whose typing:false has been pushed
\* while another frame's dispatch was running
C22_NoTypingFalseDuringDispatch ==
    \A i, j \in 1..Len(frames) :
        (i # j /\ InFlight(i))
        => \A k \in 1..Len(pushed) :
              pushed[k].req = j => pushed[k].msg # Typing(JsFalse)

(***************************************************************************)
(* C23.  Stopped and deleted are entered only from ready or failed: a stop *)
(* or delete asked for an id the server has never created is rejected      *)
(* with InvalidTransitionError, and the devpod command is not run.         *)
(***************************************************************************)
C23_UnknownIdIsRejectedUnrun ==
    \A i \in 1..Len(ops) :
        (ops[i].kind \in {"stop", "delete"} /\ ops[i].workspaceId = UnknownId)
        => /\ ops[i].pc # "exec"
           /\ ops[i].outcome = NoOutcome
           /\ ops[i].pc = "done"
              => /\ ops[i].reply.status >= 400
                 /\ Get(ops[i].reply.body, "error") = "InvalidTransitionError"

\* what the code does keep of C23: a stop or delete never brings a
\* workspace back, and one for an id devpod does not have changes nothing
C23_StopDeleteNeverRevive ==
    \A i \in 1..Len(ops) :
        (ops[i].pc = "done" /\ ops[i].kind \in {"stop", "delete"})
        => /\ ops[i].became # "running" \/ ops[i].was = "running"
           /\ ops[i].was = "absent" => ops[i].became = "absent"

(***************************************************************************)
(* C24.  When the connection closes while a dispatch is in flight, the     *)
(* server neither cancels nor ends the external process: the close changes *)
(* no request and no workspace, and the process runs to its own end.       *)
(***************************************************************************)
C24_CloseLeavesDispatchesRunning ==
    [][(wsOpen /\ ~wsOpen')
         => /\ frames' = frames /\ chats' = chats /\ creates' = creates
            /\ ops' = ops /\ containers' = containers /\ stopped' = stopped
            /\ serverUp' = serverUp]_vars

\* a dispatch was in flight when the connection closed, and its process
\* has exited 0 with its output after that
C24_Witness ==
    /\ ~wsOpen
    /\ \E i \in 1..Len(frames) :
          /\ frames[i].pc = "done" /\ frames[i].execCalls = 1
          /\ ~frames[i].openAtEnd /\ frames[i].outcome.kind = "stdout"

(***************************************************************************)
(* C25.  After the connection has closed the server attempts no send on    *)
(* it: a dispatch that completes after the close pushes neither response   *)
(* nor typing:false nor error, and a failed send never leaves the message  *)
(* handler as an unhandled error.                                          *)
(***************************************************************************)
C25_NoSendAfterClose ==
    \A i \in 1..Len(frames) :
        (Guarded /\ frames[i].pc = "done" /\ frames[i].execCalls = 1)
        => /\ frames[i].openAtEnd
           /\ ~frames[i].escaped

\* the half of C25 that reads on the process alone: no exception of a
\* send leaves the handler
C25_NoSendEscapes ==
    \A i \in 1..Len(frames) : Guarded => ~frames[i].escaped

\* what reaches the client of C25: nothing is delivered for a dispatch
\* that completed after the close
C25_NothingDeliveredAfterClose ==
    \A i \in 1..Len(frames) :
        (Guarded /\ frames[i].pc = "done" /\ frames[i].execCalls = 1
            /\ ~frames[i].openAtEnd)
        => MsgsOf(i) = <<[req |-> i, msg |-> Typing(JsTrue)]>>

(***************************************************************************)
(* C26.  The message pushed between typing:true and typing:false always    *)
(* has type "response" and a timestamp the server made, whatever the       *)
(* collaborator's parsed result contains: a type or timestamp field of its *)
(* own, or no object at all.                                               *)
(***************************************************************************)
\* new Date().toISOString() at any instant of the model's clock
ServerTimestamps == {ToISOString(t) : t \in 0..MaxClock}

C26_MiddleIsServerStampedResponse ==
    \A i \in 1..Len(frames) :
        (Guarded /\ IsChatFrame(i) /\ FrameDone(i) /\ frames[i].openAtEnd)
        => /\ Len(MsgsOf(i)) = 3
           /\ MsgsOf(i)[2].msg.type = "response"
           /\ "timestamp" \in DOMAIN MsgsOf(i)[2].msg
           /\ MsgsOf(i)[2].msg.timestamp \in ServerTimestamps

\* C26 without the type: the timestamp is the server's, also when the
\* result has one of its own or is null
C26_TimestampIsTheServers ==
    \A i \in 1..Len(frames) :
        (Guarded /\ IsChatFrame(i) /\ FrameDone(i) /\ frames[i].openAtEnd)
        => /\ Len(MsgsOf(i)) = 3
           /\ "timestamp" \in DOMAIN MsgsOf(i)[2].msg
           /\ MsgsOf(i)[2].msg.timestamp \in ServerTimestamps

\* a result with a timestamp of its own, and a null result, have been
\* pushed
C26_TimestampCasesReached ==
    /\ \E i \in 1..Len(frames) :
          /\ FrameDone(i) /\ frames[i].openAtEnd /\ frames[i].outcome.kind = "stdout"
          /\ Has(JsonParse(frames[i].outcome.text).value, "timestamp")
    /\ \E i \in 1..Len(frames) :
          /\ FrameDone(i) /\ frames[i].openAtEnd /\ frames[i].outcome.text = "null"

(***************************************************************************)
(* C27.  Validation precedes side effects on the HTTP surface: a create    *)
(* request without userId or projectName, and a chat request without       *)
(* message, is answered 400 with success false, once, and no external      *)
(* collaborator (GitHub client, devpod, shell command) is called for it.   *)
(***************************************************************************)
C27_ValidationBeforeSideEffects ==
    /\ \A i \in 1..Len(creates) :
          (Guarded /\ (creates[i].userId = Missing \/ creates[i].projectName = Missing))
          => /\ creates[i].pc = "done"
             /\ creates[i].reply.status = 400
             /\ Get(creates[i].reply.body, "success") = JsFalse
             /\ creates[i].calls = NoCalls /\ creates[i].ok = {}
             /\ creates[i].id = UnknownId
    /\ \A i \in 1..Len(chats) :
          (Guarded /\ chats[i].message = Missing)
          => /\ chats[i].pc = "done"
             /\ chats[i].reply.status = 400
             /\ Get(chats[i].reply.body, "success") = JsFalse
             /\ chats[i].execCalls = 0 /\ chats[i].outcome = NoOutcome

\* "once": a request that has been answered is never answered again
C27_AnsweredOnce ==
    [][/\ \A i \in 1..Len(creates) : creates[i].pc = "done" => creates'[i] = creates[i]
       /\ \A i \in 1..Len(chats) : chats[i].pc = "done" => chats'[i] = chats[i]]_vars

\* a create request without projectName and a chat request without
\* message have both been answered
C27_Witness ==
    /\ Guarded
    /\ \E i \in 1..Len(creates) :
          /\ creates[i].userId # Missing /\ creates[i].projectName = Missing
          /\ creates[i].reply = CreateBadRequest
    /\ \E i \in 1..Len(chats) :
          chats[i].message = Missing /\ chats[i].reply = ChatBadRequest

(***************************************************************************)
(* C30.  The local server's createWorkspace runs its steps in the order    *)
(* make directory, copy template, git init, devpod up; a failure at a step *)
(* skips every later step and is answered success false with the error,    *)
(* and nothing already created is removed.                                 *)
(***************************************************************************)
LocalSteps == <<"mkdir", "cp", "git", "up">>
StepsBefore(k) == {LocalSteps[j] : j \in 1..(k - 1)}

C30_LocalStepsInOrder ==
    \A i \in 1..Len(creates) :
        variant = "simple"
        => /\ creates[i].calls.repo = 0
           /\ \A k \in 1..4 :
                 /\ creates[i].calls[LocalSteps[k]] <= 1
                 /\ creates[i].calls[LocalSteps[k]] = 1
                    => StepsBefore(k) \subseteq creates[i].ok
                 /\ creates[i].failed = LocalSteps[k]
                    => /\ creates[i].pc = "done"
                       /\ \A j \in (k + 1)..4 : creates[i].calls[LocalSteps[j]] = 0
                       /\ creates[i].reply.status = 500
                       /\ Get(creates[i].reply.body, "success") = JsFalse
                       /\ Has(creates[i].reply.body, "error")
                       /\ creates[i].ok = StepsBefore(k)
           /\ "git" \in creates[i].ok => creates[i].id \in repos

\* the local server has failed at git init, after the directory was made
\* and the template copied, and at devpod up
C30_Witness ==
    /\ variant = "simple"
    /\ \E i, j \in 1..Len(creates) :
          /\ creates[i].failed = "git" /\ creates[i].ok = {"mkdir", "cp"}
          /\ creates[i].pc = "done"
          /\ creates[j].failed = "up" /\ creates[j].id \in repos

(***************************************************************************)
(* C28.  A well-formed frame whose type is not "chat" is ignored: the      *)
(* server pushes nothing for it (no typing, response or error message)     *)
(* and calls no collaborator.                                              *)
(***************************************************************************)
IsOtherFrame(i) == frames[i].syntax = "object" /\ frames[i].type # "chat"

C28_NonChatFrameIgnored ==
    \A i \in 1..Len(frames) :
        IsOtherFrame(i)
        => /\ MsgsOf(i) = <<>>
           /\ frames[i].execCalls = 0 /\ frames[i].outcome = NoOutcome
           /\ frames[i].pc = "done"

\* C28 on the full and the local server: the Railway demo server echoes
\* a response for every frame it can parse
C28_NonChatFrameIgnoredWhereGuarded ==
    \A i \in 1..Len(frames) :
        (Guarded /\ IsOtherFrame(i))
        => /\ MsgsOf(i) = <<>>
           /\ frames[i].execCalls = 0 /\ frames[i].outcome = NoOutcome
           /\ frames[i].pc = "done"

\* ... where such a frame has arrived
C28_OtherFrameArrived ==
    Guarded /\ \E i \in 1..Len(frames) : IsOtherFrame(i)

(***************************************************************************)
(* C29.  The chat page sends a chat message only when its workspace status *)
(* is ready and its connection is open, and never a second one while an    *)
(* earlier one is unanswered: between a sendMessage and the arrival of     *)
(* that request's response, sendMessage cannot send again.                 *)
(***************************************************************************)
C29_SendsWhenOpenAndAnswered ==
    \A k \in 1..Len(ui.attempts) :
        /\ ui.attempts[k].readyState = "open"
        /\ ui.attempts[k].unanswered = 0

\* the first half of C29 alone: the connection is open at every send
C29_SendsOnlyOnOpenConnection ==
    \A k \in 1..Len(ui.attempts) : ui.attempts[k].readyState = "open"

\* the second half of C29 alone, over the frames that went out on an open
\* connection
C29_NoSecondSendWhileUnanswered ==
    \A k \in 1..Len(ui.attempts) :
        ui.attempts[k].readyState = "open" => ui.attempts[k].unanswered = 0

\* what the page does keep of C29: it sends only with a workspace that is
\* ready and a WebSocket object, and not while the typing indicator shows
C29_SendsOnlyWhenReadyAndNotTyping ==
    [][ui'.attempts # ui.attempts
         => ui.workspaceStatus = "ready" /\ ui.socket # "none" /\ ~ui.isTyping]_vars

====
